---- MODULE Spec2Model ----
(***************************************************************************)
(* Model of the retrieval-and-response engine ITMOAIChatbot                *)
(* (src/src/app/itmo_chat_bot.py) and of its Telegram front-end ITMOBot    *)
(* (src/src/app/telegram_bot.py).                                          *)
(*                                                                         *)
(* Spec is the engine called by one caller at a time, SpecThreads the      *)
(* engine called from two threads, SpecChat the bot answering messages of  *)
(* two users, SpecFlow the bot's five-question recommendation flow.        *)
(*                                                                         *)
(* Text is a sequence of characters.  A character is a one-letter string;  *)
(* a Cyrillic letter is written as its transliteration with a leading      *)
(* underscore ("_p" is the small letter pe, "_P" the capital one), so a    *)
(* Latin letter and a Cyrillic letter are never the same character.        *)
(***************************************************************************)
EXTENDS Integers, Sequences, FiniteSets, TLC

\* ------------------------------------------------------------------ bounds
\* Longest knowledge base (knowledge_base.json) the model builds an index for.
MaxCorpus == 2
\* The monthly limit the engine is constructed with (max_tokens_per_month).
QuotaLimit == 56

\* --------------------------------------------------------------- text (str)
\* str.isspace for the characters of the model.
IsSpace(c) == c \in {" ", "\n", "\t"}

\* str.lower, character by character.
LowerChar(c) ==
    CASE c = "S" -> "s"
      [] c = "T" -> "t"
      [] c = "A" -> "a"
      [] c = "R" -> "r"
      [] c = "_P" -> "_p"
      [] c = "_R" -> "_r"
      [] c = "_I" -> "_i"
      [] c = "_V" -> "_v"
      [] c = "_E" -> "_e"
      [] c = "_T" -> "_t"
      [] c = "_D" -> "_d"
      [] c = "_N" -> "_n"
      [] c = "Y" -> "y"
      [] OTHER -> c

Lower(s) == [i \in 1..Len(s) |-> LowerChar(s[i])]

\* sub in s, for Python strings: s holds sub as a contiguous run.
Contains(sub, s) ==
    \E off \in 0..(Len(s) - Len(sub)) :
        \A j \in 1..Len(sub) : s[off + j] = sub[j]

\* len(s.split()): the number of maximal runs of non-whitespace characters.
WordCount(s) ==
    Cardinality({i \in 1..Len(s) :
                    /\ ~IsSpace(s[i])
                    /\ (i = 1 \/ IsSpace(s[i - 1]))})

\* s.strip(): s without its leading and trailing whitespace.
Strip(s) ==
    IF \A i \in 1..Len(s) : IsSpace(s[i]) THEN <<>>
    ELSE LET lo == CHOOSE i \in 1..Len(s) :
                      ~IsSpace(s[i]) /\ \A j \in 1..(i - 1) : IsSpace(s[j])
             hi == CHOOSE i \in 1..Len(s) :
                      ~IsSpace(s[i]) /\ \A j \in (i + 1)..Len(s) : IsSpace(s[j])
         IN  SubSeq(s, lo, hi)

\* s[n:], s[:n] for n >= 0.
DropFirst(s, n) == IF n >= Len(s) THEN <<>> ELSE SubSeq(s, n + 1, Len(s))
TakeFirst(s, n) == IF n >= Len(s) THEN s ELSE SubSeq(s, 1, n)

\* sep.join(parts)
RECURSIVE Join(_, _)
Join(sep, parts) ==
    IF Len(parts) = 0 THEN <<>>
    ELSE IF Len(parts) = 1 THEN parts[1]
    ELSE parts[1] \o sep \o Join(sep, Tail(parts))

\* n one-letter words separated by single spaces: the stand-in of a fixed
\* text of n words.
WordsText(n) == [i \in 1..(IF n = 0 THEN 0 ELSE 2 * n - 1) |->
                    IF i % 2 = 1 THEN "w" ELSE " "]

\* ------------------------------------------------- fixed texts of the engine
\* The greeting/start tokens of process_query, in source order:
\* privet, zdravstvuj, dobryj den', dobryj vecher, zdravstvujte, start, /start.
greetings ==
    << <<"_p","_r","_i","_v","_e","_t">>,
       <<"_z","_d","_r","_a","_v","_s","_t","_v","_u","_j">>,
       <<"_d","_o","_b","_r","_y","_j"," ","_d","_e","_n","_q">>,
       <<"_d","_o","_b","_r","_y","_j"," ","_v","_e","_ch","_e","_r">>,
       <<"_z","_d","_r","_a","_v","_s","_t","_v","_u","_j","_t","_e">>,
       <<"s","t","a","r","t">>,
       <<"/","s","t","a","r","t">> >>

\* The onboarding message process_query returns for a greeting (its first
\* word stands for the whole fixed text).
OnboardingText == <<"_Z","_d","_r","_a","_v","_s","_t","_v","_u","_j","_t","_e","!">>

\* The message process_query returns when retrieval found nothing (first
\* word of the fixed text).
NotFoundText == <<"_I","_z","_v","_i","_n","_i","_t","_e",",">>

\* Words of the prompt template before {context_text}, between
\* {context_text} and {query}, and after {query}.
PromptHeadWords == 35
PromptMidWords == 2
PromptTailWords == 17

\* The three fixed pieces of the f-string, with the whitespace that borders
\* the two interpolations as in the source; each word is one letter.
PromptHead == WordsText(PromptHeadWords) \o <<"\n">>
PromptMid == <<"\n", "\n">> \o WordsText(PromptMidWords) \o <<" ">>
PromptTail == <<"\n", "\n">> \o WordsText(PromptTailWords)

\* context_text = "\n\n".join([f"- {item['text']}" for item in context])
ContextText(context) ==
    Join(<<"\n", "\n">>, [i \in 1..Len(context) |-> <<"-", " ">> \o context[i].text])

\* The prompt generate_response builds from the query and the context.
BuildPrompt(query, context) ==
    PromptHead \o ContextText(context) \o PromptMid \o query \o PromptTail

\* Characters the fallback generator keeps of its answer: response[:1000].
FallbackMaxChars == 1000

\* k of the retrieval call in process_query.
ProcessQueryK == 5

\* ------------------------------------------------- embeddings and the index
\* Number of times character c occurs in text s.
Occurrences(s, c) == Cardinality({i \in 1..Len(s) : s[i] = c})

\* self.embedder.encode: a fixed function from a text to a vector, here the
\* pair (occurrences of "m", occurrences of "p").  The same text always
\* gets the same vector.
EmbedderEncode(text) == <<Occurrences(text, "m"), Occurrences(text, "p")>>

Dot(u, v) == u[1] * v[1] + u[2] * v[2]

\* Inner product of the L2-normalized vectors q and x is greater than that
\* of q and y.  faiss.normalize_L2 leaves a zero vector zero, so its inner
\* product with anything is 0.  Compared exactly, without square roots.
ScoreGreater(q, x, y) ==
    LET nx == IF Dot(x, x) = 0 THEN 0 ELSE Dot(q, x)
        ny == IF Dot(y, y) = 0 THEN 0 ELSE Dot(q, y)
        dx == IF Dot(x, x) = 0 THEN 1 ELSE Dot(x, x)
        dy == IF Dot(y, y) = 0 THEN 1 ELSE Dot(y, y)
    IN  IF nx >= 0 /\ ny < 0 THEN TRUE
        ELSE IF nx < 0 /\ ny >= 0 THEN FALSE
        ELSE IF nx >= 0 THEN nx * nx * dy > ny * ny * dx
        ELSE nx * nx * dy < ny * ny * dx

\* Of two stored positions with the same score, which one the index lists
\* first.  IndexFlatIP leaves this to its internals; tie is the rule of the
\* faiss build in use.
TieBefore(tie, i, j) == IF tie = "low_id_first" THEN i < j ELSE i > j

\* self.index.search(q, k): the positions (0-based) of the k stored vectors
\* with the greatest inner product, greatest first, padded with -1 when the
\* index holds fewer than k vectors.
IndexSearch(idx, q, k, tie) ==
    LET n == Len(idx)
        Before(i, j) == \/ ScoreGreater(q, idx[i], idx[j])
                        \/ /\ ~ScoreGreater(q, idx[j], idx[i])
                           /\ TieBefore(tie, i, j)
        Rank(i) == Cardinality({j \in 1..n : j # i /\ Before(j, i)})
    IN  [r \in 1..k |->
            IF r <= n THEN (CHOOSE i \in 1..n : Rank(i) = r - 1) - 1 ELSE -1]

\* The loop without its test for -1: Python reads knowledge_base[-1] as the
\* last entry, so every padding position would yield the last entry again.
CollectResultsUnfiltered(kb, indices) ==
    [i \in 1..Len(indices) |->
        IF indices[i] = -1 THEN kb[Len(kb)] ELSE kb[indices[i] + 1]]

\* The loop of retrieve_relevant_info over indices[0]: every idx other than
\* -1 appends knowledge_base[idx].
RECURSIVE CollectResults(_, _)
CollectResults(kb, indices) ==
    IF Len(indices) = 0 THEN <<>>
    ELSE IF indices[1] # -1
         THEN <<kb[indices[1] + 1]>> \o CollectResults(kb, Tail(indices))
         ELSE CollectResults(kb, Tail(indices))

\* ------------------------------------------------------------ the inputs
\* Entries of knowledge_base.json.  k1 and k2 carry the same text under two
\* ids, so they embed to the same vector and always score the same.
Entry1 == [id |-> "k1", text |-> <<"m", "l">>]
Entry2 == [id |-> "k2", text |-> <<"m", "l">>]
Entry3 == [id |-> "k3", text |-> <<"p", "m", " ", "a", "i">>]
Entries == {Entry1, Entry2, Entry3}

\* The corpus files: every list of distinct entries up to MaxCorpus long,
\* the empty list included.
Corpora ==
    UNION {{c \in [1..n -> Entries] : \A i, j \in 1..n : i # j => c[i] # c[j]} :
              n \in 0..MaxCorpus}

\* Queries: a greeting in capitals (PRIVET), a question that holds the token
\* "start" inside a longer word ("ml startup"), and two plain questions.
QueryGreeting == <<"_P", "_R", "_I", "_V", "_E", "_T">>
QueryStartup == <<"m", "l", " ", "s", "t", "a", "r", "t", "u", "p">>
QueryMl == <<"m", "l", "?">>
QueryPrice == <<"p", "r", "i", "c", "e", "?">>
Queries == {QueryGreeting, QueryStartup, QueryMl, QueryPrice}

\* Values of k retrieve_relevant_info is called with.
Ks == {1, ProcessQueryK}

\* What the remote messages.create call does: raises (network, auth, rate
\* limit), returns a response whose content list is empty, or returns a
\* text block.
PrimaryOutcomes == {"api_error", "malformed", "empty_text", "answer"}

\* response.content[0].text of a successful call.
Completion(pr) ==
    IF pr = "answer" THEN <<" ", "o", "k", " ", "o", "k", "\n">> ELSE <<>>

\* What the local model does in one call of _use_fallback_model: how the
\* lazy load ends (when one is needed) and what generation gives.
FallbackLoads == {"ok", "tokenizer_fails", "model_fails"}
FallbackGens == {"raises", "echo_only", "echo_answer", "echo_long",
                 "no_echo", "shifted_echo"}
FallbackBehaviours == [load : FallbackLoads, gen : FallbackGens]
NoFallback == [load |-> "ok", gen |-> "raises"]

\* tokenizer.decode(outputs[0]) for a prompt: the prompt followed by the
\* continuation (nothing, a short answer, an answer longer than the cut),
\* an answer that does not repeat the prompt, or the prompt after one extra
\* leading character.
Decoded(prompt, gen) ==
    CASE gen = "echo_only" -> prompt \o <<"\n">>
      [] gen = "echo_answer" -> prompt \o <<"\n", "a", "i", " ", "!", " ">>
      [] gen = "echo_long" -> prompt \o [i \in 1..(FallbackMaxChars + 2) |-> "x"]
      [] gen = "no_echo" -> <<"a", "i">>
      [] gen = "shifted_echo" -> <<" ">> \o prompt \o <<" ", "a", "i">>
      [] OTHER -> <<>>

\* The user_background dicts the scorers are called with: the profile with
\* all five boolean factors (Profiles), and dicts in which factors are
\* missing (PartialBackgrounds).
Profiles ==
    [technical_skills : BOOLEAN, management_interest : BOOLEAN,
     programming_experience : BOOLEAN, ml_knowledge : BOOLEAN,
     product_experience : BOOLEAN]
NoProfile ==
    [technical_skills |-> FALSE, management_interest |-> FALSE,
     programming_experience |-> FALSE, ml_knowledge |-> FALSE,
     product_experience |-> FALSE]
PartialBackgrounds ==
    {[technical_skills |-> TRUE],
     [ml_knowledge |-> TRUE],
     [management_interest |-> TRUE, ml_knowledge |-> FALSE],
     [programming_experience |-> TRUE, product_experience |-> TRUE]}
Backgrounds == Profiles \cup PartialBackgrounds

\* ------------------------------------------------------------- the state
VARIABLES
    phase,                  \* "new", "failed" (__init__ raised), "idle" (constructed,
                            \* no call under way) or "returned" (a call just ended)
    kb_file,                \* the list knowledge_base.json holds
    api_key,                \* whether a claude_api_key is passed to __init__
    faiss_tie,              \* the tie rule of the index library in use
    claude_client,          \* self.claude_client is not None
    max_tokens_per_month,   \* self.max_tokens_per_month
    used_tokens,            \* self.used_tokens
    fallback_model,         \* self.fallback_model: "None" or "loaded"
    fallback_tokenizer,     \* self.fallback_tokenizer: "None", "no_pad", "ready"
    knowledge_base,         \* self.knowledge_base
    index,                  \* self.index: the stored vectors, in add order
    last,                   \* what the call that just ended was given, did and gave back
    threads,                \* for each thread calling the engine: where it stands in
                            \* generate_response and what it holds in its locals
    audit,                  \* what the threads did so far: loads made, increments owed
    loop,                   \* the bot's event loop: the handler it is running, and
                            \* for each user the message in hand and the replies sent
    fsm_state,              \* the dispatcher's FSM storage: the state of each user
                            \* in each chat
    user_backgrounds,       \* ITMOBot.user_backgrounds
    sent,                   \* for each user and chat, the recommendation message sent
                            \* at the end of the flow started last (empty until then)
    answered                \* for each user and chat, the answers given there since
                            \* the flow was started last (history, not program state)

vars == <<phase, kb_file, api_key, faiss_tie, claude_client, max_tokens_per_month,
          used_tokens, fallback_model, fallback_tokenizer, knowledge_base, index,
          last, threads, audit, loop, fsm_state, user_backgrounds, sent, answered>>

config == <<kb_file, api_key, faiss_tie>>
callers == <<threads, audit>>
frontend == <<loop, fsm_state, user_backgrounds, sent, answered>>
engine == <<claude_client, max_tokens_per_month, used_tokens, fallback_model,
            fallback_tokenizer, knowledge_base, index>>

\* The record of a call, before anything is filled in.
NoCall ==
    [op |-> "none", query |-> <<>>, k |-> 0, context |-> <<>>,
     primary |-> "none",
     kind |-> "none", text |-> <<>>, error |-> "none", results |-> <<>>,
     generate_calls |-> 0, primary_calls |-> 0, fallback_calls |-> 0,
     fallback_kind |-> "none", fallback_text |-> <<>>,
     embed_calls |-> 0, loads |-> 0,
     used_before |-> 0, profile |-> NoProfile, program |-> "none"]

\* ------------------------------------------------------- _use_fallback_model
\* NeedsLoad altered: the model is loaded on every call.
NeedsLoadAlways(fm) == TRUE

\* `if self.fallback_model is None` (line 114).
NeedsLoad(fm) == fm = "None"

\* One call of _use_fallback_model(prompt) from the state (fm, ft) under the
\* behaviour fb.  Gives the fields after the call, how it ended ("return"
\* with text, or "raise"), and whether the lazy load was entered.
UseFallbackModel(fm, ft, prompt, fb) ==
    LET needs_load == NeedsLoad(fm)
        tok_failed == needs_load /\ fb.load = "tokenizer_fails"
        model_failed == needs_load /\ fb.load = "model_fails"
        fm2 == IF needs_load /\ fb.load = "ok" THEN "loaded" ELSE fm
        ft2 == IF tok_failed THEN ft
               ELSE IF model_failed THEN "no_pad"
               ELSE IF needs_load THEN "ready"
               ELSE ft
        raised == tok_failed \/ model_failed \/ fb.gen = "raises"
        response == Decoded(prompt, fb.gen)
        stripped == IF Contains(prompt, response)
                    THEN Strip(DropFirst(response, Len(prompt)))
                    ELSE response
    IN  [fallback_model |-> fm2,
         fallback_tokenizer |-> ft2,
         kind |-> IF raised THEN "raise" ELSE "return",
         text |-> IF raised THEN <<>> ELSE Strip(TakeFirst(stripped, FallbackMaxChars)),
         loads |-> IF needs_load THEN 1 ELSE 0]

\* ---------------------------------------------------------- generate_response
\* PrimaryOpen altered: the quota is not looked at.
PrimaryOpenIgnoresQuota(client, used, limit) == client

\* Whether generate_response takes the primary branch.
PrimaryOpen(client, used, limit) == client /\ used < limit

\* PrimaryRaises altered: the content of the response is read only after
\* the tokens are counted, so a malformed response is counted like a success.
PrimaryRaisesApiOnly(pr) == pr = "api_error"

\* Whether the primary branch raises before used_tokens is assigned:
\* messages.create raises, or response.content[0] does (an empty content
\* list) while the right-hand side of += is evaluated.
PrimaryRaises(pr) == pr \in {"api_error", "malformed"}

\* ExceptCatches altered: only the API's own errors are caught.
ExceptCatchesApiErrorsOnly(pr) == pr = "api_error"

\* Whether "except Exception" catches what the primary branch raised.
ExceptCatches(pr) == pr \in {"api_error", "malformed"}

\* CountTokens altered: nothing is counted.
CountTokensNothing(used, prompt, completion) == used

\* CountTokens altered: the completion is not counted.
CountTokensPromptOnly(used, prompt, completion) == used + WordCount(prompt)

\* used_tokens after a primary call that returned completion for prompt.
CountTokens(used, prompt, completion) ==
    used + WordCount(prompt) + WordCount(completion)

\* What generate_response gives when a call of _use_fallback_model, whose
\* outcome is f, is its last statement.
ReturnFallback(used, f, pr, primary_calls, fallback_calls, loads) ==
    [used_tokens |-> used,
     fallback_model |-> f.fallback_model,
     fallback_tokenizer |-> f.fallback_tokenizer,
     kind |-> f.kind, text |-> f.text,
     error |-> IF f.kind = "raise" THEN "fallback" ELSE "none",
     primary |-> pr,
     primary_calls |-> primary_calls, fallback_calls |-> fallback_calls,
     fallback_kind |-> f.kind, fallback_text |-> f.text,
     loads |-> loads]

\* generate_response(query, context) from the given fields, with the remote
\* call behaving as pr and the local model as fb1 (first call of
\* _use_fallback_model) and fb2 (second call, made by the except clause when
\* the first one raised inside the try block).
GenerateResponse(client, used, limit, fm, ft, query, context, pr, fb1, fb2) ==
    LET prompt == BuildPrompt(query, context)
        first == UseFallbackModel(fm, ft, prompt, fb1)
        second == UseFallbackModel(first.fallback_model, first.fallback_tokenizer,
                                   prompt, fb2)
    IN  IF PrimaryOpen(client, used, limit)
        THEN IF PrimaryRaises(pr)
             THEN IF ExceptCatches(pr)
                  THEN \* except Exception: the fallback is the answer
                       ReturnFallback(used, first, pr, 1, 1, first.loads)
                  ELSE \* the exception leaves generate_response
                       [used_tokens |-> used,
                        fallback_model |-> fm,
                        fallback_tokenizer |-> ft,
                        kind |-> "raise", text |-> <<>>, error |-> "primary",
                        primary |-> pr,
                        primary_calls |-> 1, fallback_calls |-> 0,
                        fallback_kind |-> "none", fallback_text |-> <<>>,
                        loads |-> 0]
             ELSE [used_tokens |-> CountTokens(used, prompt, Completion(pr)),
                   fallback_model |-> fm,
                   fallback_tokenizer |-> ft,
                   kind |-> "return", text |-> Completion(pr), error |-> "none",
                   primary |-> pr,
                   primary_calls |-> 1, fallback_calls |-> 0,
                   fallback_kind |-> "none", fallback_text |-> <<>>,
                   loads |-> 0]
        ELSE IF first.kind = "return"
             THEN ReturnFallback(used, first, "none", 0, 1, first.loads)
             ELSE \* the else branch raised inside try: except runs it again
                  ReturnFallback(used, second, "none", 0, 2,
                                 first.loads + second.loads)

\* The behaviours that matter to one generate_response call: the remote call
\* is read only on the primary branch, the first fallback call only off a
\* successful primary, the second only after the first raised in the else
\* branch; a load behaviour only while the model is not loaded.
RelevantBehaviours(client, used, limit, fm, pr, fb1, fb2) ==
    LET open == PrimaryOpen(client, used, limit)
        primary_ok == open /\ ~PrimaryRaises(pr)
        first_raises == \/ fb1.gen = "raises"
                        \/ (fm = "None" /\ fb1.load # "ok")
        second_used == ~open /\ first_raises
    IN  /\ ~open => pr = "answer"
        /\ primary_ok => fb1 = NoFallback
        /\ ~second_used => fb2 = NoFallback
        /\ fm # "None" => fb1.load = "ok" /\ fb2.load = "ok"
        /\ fb1.load # "ok" => fb1.gen = "raises"
        /\ fb2.load # "ok" => fb2.gen = "raises"

\* ------------------------------------------------------ retrieve_relevant_info
\* A retrieve_relevant_info that moves the entries it found to the front of
\* the knowledge base, leaving the index as it is.
RetrieveRelevantInfoReordering(kb, idx, tie, query, k, embed_ok) ==
    LET results == CollectResults(kb, IndexSearch(idx, EmbedderEncode(query), k, tie))
        rest == SelectSeq(kb, LAMBDA e : \A i \in 1..Len(results) : results[i] # e)
    IN  IF ~embed_ok
        THEN [kind |-> "raise", results |-> <<>>, error |-> "embedding", embed_calls |-> 1,
              knowledge_base |-> kb, index |-> idx]
        ELSE [kind |-> "return", results |-> results,
              error |-> "none", embed_calls |-> 1,
              knowledge_base |-> results \o rest, index |-> idx]

\* retrieve_relevant_info(query, k): embed the query, search the index, and
\* collect the entries at the positions found.  embed_ok = FALSE is the
\* embedder raising.  The knowledge base and the index are given back as
\* the call leaves them.
RetrieveRelevantInfo(kb, idx, tie, query, k, embed_ok) ==
    IF ~embed_ok
    THEN [kind |-> "raise", results |-> <<>>, error |-> "embedding", embed_calls |-> 1,
          knowledge_base |-> kb, index |-> idx]
    ELSE [kind |-> "return",
          results |-> CollectResults(kb, IndexSearch(idx, EmbedderEncode(query), k, tie)),
          error |-> "none", embed_calls |-> 1,
          knowledge_base |-> kb, index |-> idx]

\* --------------------------------------------------------------- process_query
\* The greeting test without query.lower().
IsGreetingCaseSensitive(query) ==
    \E g \in 1..Len(greetings) : Contains(greetings[g], query)

\* any(greeting in query.lower() for greeting in greetings)
IsGreeting(query) ==
    \E g \in 1..Len(greetings) : Contains(greetings[g], Lower(query))

\* ProcessQuery altered: the generated answer is stripped of surrounding
\* whitespace before it is returned.
ProcessQueryTrimsAnswer(client, used, limit, fm, ft, kb, idx, tie, query, embed_ok, pr, fb1, fb2) ==
    LET found == RetrieveRelevantInfo(kb, idx, tie, query, ProcessQueryK, embed_ok)
        gen == GenerateResponse(client, used, limit, fm, ft, query, found.results,
                                pr, fb1, fb2)
        quiet == [used_tokens |-> used, fallback_model |-> fm, fallback_tokenizer |-> ft,
                  knowledge_base |-> kb, index |-> idx,
                  kind |-> "return", text |-> <<>>, error |-> "none",
                  primary |-> "none", context |-> <<>>,
                  primary_calls |-> 0, fallback_calls |-> 0,
                  fallback_kind |-> "none", fallback_text |-> <<>>, loads |-> 0,
                  embed_calls |-> 0, generate_calls |-> 0]
    IN  IF IsGreeting(query)
        THEN [quiet EXCEPT !.text = OnboardingText]
        ELSE IF found.kind = "raise"
        THEN [quiet EXCEPT !.kind = "raise", !.error = found.error, !.embed_calls = 1,
                           !.knowledge_base = found.knowledge_base,
                           !.index = found.index]
        ELSE IF Len(found.results) = 0
        THEN [quiet EXCEPT !.text = NotFoundText, !.embed_calls = 1,
                           !.knowledge_base = found.knowledge_base,
                           !.index = found.index]
        ELSE [used_tokens |-> gen.used_tokens,
              fallback_model |-> gen.fallback_model,
              fallback_tokenizer |-> gen.fallback_tokenizer,
              knowledge_base |-> found.knowledge_base, index |-> found.index,
              kind |-> gen.kind, text |-> Strip(gen.text), error |-> gen.error,
              primary |-> gen.primary,
              context |-> found.results,
              primary_calls |-> gen.primary_calls,
              fallback_calls |-> gen.fallback_calls,
              fallback_kind |-> gen.fallback_kind,
              fallback_text |-> gen.fallback_text,
              loads |-> gen.loads,
              embed_calls |-> 1, generate_calls |-> 1]

\* process_query(query) from the given fields.
ProcessQuery(client, used, limit, fm, ft, kb, idx, tie, query, embed_ok, pr, fb1, fb2) ==
    LET found == RetrieveRelevantInfo(kb, idx, tie, query, ProcessQueryK, embed_ok)
        gen == GenerateResponse(client, used, limit, fm, ft, query, found.results,
                                pr, fb1, fb2)
        quiet == [used_tokens |-> used, fallback_model |-> fm, fallback_tokenizer |-> ft,
                  knowledge_base |-> kb, index |-> idx,
                  kind |-> "return", text |-> <<>>, error |-> "none",
                  primary |-> "none", context |-> <<>>,
                  primary_calls |-> 0, fallback_calls |-> 0,
                  fallback_kind |-> "none", fallback_text |-> <<>>, loads |-> 0,
                  embed_calls |-> 0, generate_calls |-> 0]
    IN  IF IsGreeting(query)
        THEN [quiet EXCEPT !.text = OnboardingText]
        ELSE IF found.kind = "raise"
        THEN [quiet EXCEPT !.kind = "raise", !.error = found.error, !.embed_calls = 1,
                           !.knowledge_base = found.knowledge_base,
                           !.index = found.index]
        ELSE IF Len(found.results) = 0
        THEN [quiet EXCEPT !.text = NotFoundText, !.embed_calls = 1,
                           !.knowledge_base = found.knowledge_base,
                           !.index = found.index]
        ELSE [used_tokens |-> gen.used_tokens,
              fallback_model |-> gen.fallback_model,
              fallback_tokenizer |-> gen.fallback_tokenizer,
              knowledge_base |-> found.knowledge_base, index |-> found.index,
              kind |-> gen.kind, text |-> gen.text, error |-> gen.error,
              primary |-> gen.primary,
              context |-> found.results,
              primary_calls |-> gen.primary_calls,
              fallback_calls |-> gen.fallback_calls,
              fallback_kind |-> gen.fallback_kind,
              fallback_text |-> gen.fallback_text,
              loads |-> gen.loads,
              embed_calls |-> 1, generate_calls |-> 1]

\* ------------------------------------------------------------ recommend_program
\* user_background.get(key, False)
Get(background, key) ==
    IF key \in DOMAIN background THEN background[key] ELSE FALSE

Points(flag, n) == IF flag THEN n ELSE 0

AiScore(p) ==
    Points(Get(p, "technical_skills"), 2) + Points(Get(p, "programming_experience"), 2)
        + Points(Get(p, "ml_knowledge"), 1)

AiProductScore(p) ==
    Points(Get(p, "technical_skills"), 1) + Points(Get(p, "management_interest"), 2)
        + Points(Get(p, "programming_experience"), 1) + Points(Get(p, "ml_knowledge"), 1)
        + Points(Get(p, "product_experience"), 2)

\* The three fixed texts.  "<II>" is the program name "Iskusstvennyj
\* intellekt", "<UIP>" the program name "Upravlenie II-produktami"; the rest
\* of each text is cut to one word.
RecommendationAi == <<"r", " ", "<II>", " ", "a">>
RecommendationAiProduct == <<"r", " ", "<UIP>", " ", "b">>
RecommendationTie == <<"o", " ", "<II>", " ", "<UIP>", " ", "c">>

\* RecommendProgram altered: a tie goes to the first program.
RecommendProgramTieToAi(p) ==
    IF AiScore(p) >= AiProductScore(p) THEN RecommendationAi
    ELSE RecommendationAiProduct

RecommendProgram(p) ==
    IF AiScore(p) > AiProductScore(p) THEN RecommendationAi
    ELSE IF AiProductScore(p) > AiScore(p) THEN RecommendationAiProduct
    ELSE RecommendationTie

\* ------------------------------------------------ get_disciplines_recommendation
\* The text is the list of its blocks; a block is written as one character.
Block(cond, name) == IF cond THEN <<name>> ELSE <<>>

\* GetDisciplinesRecommendation altered: a decision tree, in which only the
\* first block whose condition holds is added.
GetDisciplinesRecommendationFirstMatch(program, p) ==
    IF program = "ai"
    THEN <<"ai_header">>
            \o (IF Get(p, "programming_experience") THEN <<"mlops">>
                ELSE IF Get(p, "ml_knowledge") THEN <<"rl">>
                ELSE Block(~Get(p, "technical_skills"), "math"))
            \o <<"ai_specializations">>
    ELSE <<"product_header">>
            \o (IF Get(p, "product_experience") THEN <<"growth">>
                ELSE IF ~Get(p, "ml_knowledge") THEN <<"ml_foundations">>
                ELSE Block(Get(p, "management_interest"), "agile"))
            \o <<"product_skills">>

GetDisciplinesRecommendation(program, p) ==
    IF program = "ai"
    THEN <<"ai_header">>
            \o Block(Get(p, "programming_experience"), "mlops")
            \o Block(Get(p, "ml_knowledge"), "rl")
            \o Block(~Get(p, "technical_skills"), "math")
            \o <<"ai_specializations">>
    ELSE <<"product_header">>
            \o Block(Get(p, "product_experience"), "growth")
            \o Block(~Get(p, "ml_knowledge"), "ml_foundations")
            \o Block(Get(p, "management_interest"), "agile")
            \o <<"product_skills">>

\* ----------------------------------------------------------------- __init__
\* self.embedder.encode([]) gives an array of shape (0,): it has no second
\* axis, so faiss.normalize_L2 and embeddings.shape[1] raise for an empty
\* knowledge base.
CreateFaissIndexRaises(kb) == Len(kb) = 0

\* CreateFaissIndex altered: the vectors are added last entry first.
CreateFaissIndexReversed(kb) ==
    [i \in 1..Len(kb) |-> EmbedderEncode(kb[Len(kb) + 1 - i].text)]

\* create_faiss_index: one vector per entry, in entry order.
CreateFaissIndex(kb) == [i \in 1..Len(kb) |-> EmbedderEncode(kb[i].text)]

\* Threads that call the engine, and users that write to the bot.
Threads == {"t1", "t2"}
Users == {"u1", "u2"}

\* The chats a user writes to the bot from: the private chat with the bot
\* and a group chat the bot was added to.  The dispatcher keeps one FSM state
\* per user and chat (telegram_bot.py:14, Dispatcher's default FSM strategy),
\* so a flow runs in a session <<chat, user>>.
Chats == {"private", "group"}
Sessions == Chats \X Users
UserOf(s) == s[2]

\* No thread is inside the engine and none has been.
NoThreads == [t \in Threads |-> [pc |-> "idle", branch |-> "none", tmp |-> 0, calls |-> 0]]
NoAudit == [tokenizer_loads |-> 0, model_loads |-> 0, partial_use |-> FALSE, owed |-> 0]

\* The bot has received nothing yet: no handler runs, no FSM state is set
\* (MemoryStorage is empty) and user_backgrounds is {} (telegram_bot.py:16).
NoConversation ==
    [stage |-> "none", text |-> <<>>, query |-> <<>>, error |-> "none",
     answer |-> <<>>, replies |-> <<>>]
NoLoop == [busy |-> "none", conv |-> [u \in Users |-> NoConversation]]
NoFsmState == [s \in Sessions |-> "None"]
NoBackgrounds == <<>>
NoSent == [s \in Sessions |-> <<>>]
NoAnswered == [s \in Sessions |-> <<>>]

Init ==
    /\ threads = NoThreads
    /\ audit = NoAudit
    /\ loop = NoLoop
    /\ fsm_state = NoFsmState
    /\ user_backgrounds = NoBackgrounds
    /\ sent = NoSent
    /\ answered = NoAnswered
    /\ phase = "new"
    /\ kb_file \in Corpora
    /\ api_key \in BOOLEAN
    /\ faiss_tie \in {"low_id_first", "high_id_first"}
    /\ claude_client = FALSE
    /\ max_tokens_per_month = QuotaLimit
    /\ used_tokens = 0
    /\ fallback_model = "None"
    /\ fallback_tokenizer = "None"
    /\ knowledge_base = <<>>
    /\ index = <<>>
    /\ last = NoCall

\* ITMOAIChatbot(claude_api_key, max_tokens_per_month)
construct ==
    /\ phase = "new"
    /\ claude_client' = api_key
    /\ used_tokens' = 0
    /\ fallback_model' = "None"
    /\ fallback_tokenizer' = "None"
    /\ knowledge_base' = kb_file
    /\ index' = IF CreateFaissIndexRaises(kb_file) THEN <<>> ELSE CreateFaissIndex(kb_file)
    /\ phase' = IF CreateFaissIndexRaises(kb_file) THEN "failed" ELSE "idle"
    /\ UNCHANGED <<callers, frontend, config, max_tokens_per_month, last>>

\* A call of retrieve_relevant_info(query, k).
retrieve_relevant_info ==
    /\ phase = "idle"
    /\ \E query \in Queries, k \in Ks, embed_ok \in BOOLEAN :
        \E r \in {RetrieveRelevantInfo(knowledge_base, index, faiss_tie, query, k, embed_ok)} :
            /\ knowledge_base' = r.knowledge_base
            /\ index' = r.index
            /\ last' = [NoCall EXCEPT !.op = "retrieve_relevant_info",
                                      !.query = query, !.k = k,
                                      !.kind = r.kind, !.error = r.error,
                                      !.results = r.results,
                                      !.embed_calls = r.embed_calls,
                                      !.used_before = used_tokens]
    /\ phase' = "returned"
    /\ UNCHANGED <<callers, frontend, config, claude_client, max_tokens_per_month, used_tokens,
                   fallback_model, fallback_tokenizer>>

\* The contexts generate_response is called with directly: none, or the
\* whole knowledge base.
Contexts == {<<>>, knowledge_base}

\* A call of generate_response(query, context).
generate_response ==
    /\ phase = "idle"
    /\ \E query \in {QueryMl}, context \in Contexts,
          pr \in PrimaryOutcomes, fb1 \in FallbackBehaviours, fb2 \in FallbackBehaviours :
        /\ RelevantBehaviours(claude_client, used_tokens, max_tokens_per_month,
                              fallback_model, pr, fb1, fb2)
        /\ \E r \in {GenerateResponse(claude_client, used_tokens, max_tokens_per_month,
                                        fallback_model, fallback_tokenizer,
                                        query, context, pr, fb1, fb2)} :
               /\ used_tokens' = r.used_tokens
               /\ fallback_model' = r.fallback_model
               /\ fallback_tokenizer' = r.fallback_tokenizer
               /\ last' = [NoCall EXCEPT !.op = "generate_response",
                                         !.query = query, !.context = context,
                                         !.primary = r.primary,
                                         !.kind = r.kind, !.text = r.text,
                                         !.error = r.error,
                                         !.generate_calls = 1,
                                         !.primary_calls = r.primary_calls,
                                         !.fallback_calls = r.fallback_calls,
                                         !.fallback_kind = r.fallback_kind,
                                         !.fallback_text = r.fallback_text,
                                         !.loads = r.loads,
                                         !.used_before = used_tokens]
    /\ phase' = "returned"
    /\ UNCHANGED <<callers, frontend, config, claude_client, max_tokens_per_month, knowledge_base, index>>

\* A call of process_query(query).
process_query ==
    /\ phase = "idle"
    /\ \E query \in Queries, embed_ok \in BOOLEAN,
          pr \in PrimaryOutcomes, fb1 \in FallbackBehaviours, fb2 \in FallbackBehaviours :
        /\ RelevantBehaviours(claude_client, used_tokens, max_tokens_per_month,
                              fallback_model, pr, fb1, fb2)
        /\ (IsGreeting(query) \/ ~embed_ok)
              => (pr = "answer" /\ fb1 = NoFallback /\ fb2 = NoFallback)
        /\ IsGreeting(query) => embed_ok
        /\ \E r \in {ProcessQuery(claude_client, used_tokens, max_tokens_per_month,
                                    fallback_model, fallback_tokenizer,
                                    knowledge_base, index, faiss_tie,
                                    query, embed_ok, pr, fb1, fb2)} :
               /\ used_tokens' = r.used_tokens
               /\ fallback_model' = r.fallback_model
               /\ fallback_tokenizer' = r.fallback_tokenizer
               /\ knowledge_base' = r.knowledge_base
               /\ index' = r.index
               /\ last' = [NoCall EXCEPT !.op = "process_query",
                                         !.query = query, !.k = ProcessQueryK,
                                         !.context = r.context,
                                         !.primary = r.primary,
                                         !.kind = r.kind, !.text = r.text,
                                         !.error = r.error,
                                         !.generate_calls = r.generate_calls,
                                         !.primary_calls = r.primary_calls,
                                         !.fallback_calls = r.fallback_calls,
                                         !.fallback_kind = r.fallback_kind,
                                         !.fallback_text = r.fallback_text,
                                         !.embed_calls = r.embed_calls,
                                         !.loads = r.loads,
                                         !.used_before = used_tokens]
    /\ phase' = "returned"
    /\ UNCHANGED <<callers, frontend, config, claude_client, max_tokens_per_month>>

\* A call of recommend_program(user_background).
recommend_program ==
    /\ phase = "idle"
    /\ \E p \in Backgrounds :
        last' = [NoCall EXCEPT !.op = "recommend_program", !.profile = p,
                               !.kind = "return", !.text = RecommendProgram(p),
                               !.used_before = used_tokens]
    /\ phase' = "returned"
    /\ UNCHANGED <<callers, frontend, config, engine>>

\* A call of get_disciplines_recommendation(program, background).
get_disciplines_recommendation ==
    /\ phase = "idle"
    /\ \E program \in {"ai", "ai_product"}, p \in Backgrounds :
        last' = [NoCall EXCEPT !.op = "get_disciplines_recommendation",
                               !.profile = p, !.program = program,
                               !.kind = "return",
                               !.text = GetDisciplinesRecommendation(program, p),
                               !.used_before = used_tokens]
    /\ phase' = "returned"
    /\ UNCHANGED <<callers, frontend, config, engine>>

\* The caller has the result (or the exception) of the call and goes on to
\* its next call.
caller_continues ==
    /\ phase = "returned"
    /\ phase' = "idle"
    /\ last' = NoCall
    /\ UNCHANGED <<callers, frontend, config, engine>>

Next ==
    \/ construct
    \/ caller_continues
    \/ retrieve_relevant_info
    \/ generate_response
    \/ process_query
    \/ recommend_program
    \/ get_disciplines_recommendation

Spec == Init /\ [][Next]_vars

\* ------------------------------------------ the engine called from threads
\* One engine shared by the threads of Threads, each calling
\* generate_response(query, context) again and again.  The class takes no
\* lock, so the threads interleave between any two reads or writes of the
\* engine's fields.

\* Calls one thread makes.
MaxCallsPerThread == 2

\* The prompt every thread sends, and the completion of a primary call that
\* succeeds.
ThreadPrompt == BuildPrompt(QueryMl, <<>>)
ThreadCompletion == Completion("answer")

InitThreads ==
    /\ threads = NoThreads
    /\ audit = NoAudit
    /\ loop = NoLoop
    /\ fsm_state = NoFsmState
    /\ user_backgrounds = NoBackgrounds
    /\ sent = NoSent
    /\ answered = NoAnswered
    /\ phase = "idle"
    /\ kb_file = <<Entry1>>
    /\ api_key \in BOOLEAN
    /\ faiss_tie = "low_id_first"
    /\ claude_client = api_key
    /\ max_tokens_per_month = QuotaLimit
    /\ used_tokens = 0
    /\ fallback_model = "None"
    /\ fallback_tokenizer = "None"
    /\ knowledge_base = kb_file
    /\ index = CreateFaissIndex(kb_file)
    /\ last = NoCall

\* Thread t moves to pc (and to the given branch of generate_response).
Goto(t, pc, branch) == [threads EXCEPT ![t].pc = pc, ![t].branch = branch]

\* Line 174: a thread enters generate_response and evaluates the gate.
thread_gate(t) ==
    /\ threads[t].pc = "idle"
    /\ threads[t].calls < MaxCallsPerThread
    /\ threads' = [threads EXCEPT
                      ![t].calls = @ + 1,
                      ![t].pc = IF PrimaryOpen(claude_client, used_tokens,
                                               max_tokens_per_month)
                                THEN "create" ELSE "fallback",
                      ![t].branch = IF PrimaryOpen(claude_client, used_tokens,
                                                   max_tokens_per_month)
                                    THEN "try" ELSE "else"]
    /\ UNCHANGED <<audit, frontend, config, engine, phase, last>>

\* Lines 175-182: messages.create returns a response, or raises into the
\* except clause of line 192.
thread_create(t) ==
    /\ threads[t].pc = "create"
    /\ \E pr \in {"answer", "api_error"} :
          threads' = IF ExceptCatches(pr) /\ PrimaryRaises(pr)
                     THEN Goto(t, "fallback", "except")
                     ELSE Goto(t, "load_used", "try")
    /\ UNCHANGED <<audit, frontend, config, engine, phase, last>>

\* Line 185, first half: `self.used_tokens += ...` reads the attribute.
thread_load_used(t) ==
    /\ threads[t].pc = "load_used"
    /\ threads' = [threads EXCEPT ![t].pc = "store_used", ![t].tmp = used_tokens]
    /\ UNCHANGED <<audit, frontend, config, engine, phase, last>>

\* Line 185, second half, and the return of line 187: the sum of the value
\* read and the two word counts is stored.
thread_store_used(t) ==
    /\ threads[t].pc = "store_used"
    /\ used_tokens' = CountTokens(threads[t].tmp, ThreadPrompt, ThreadCompletion)
    /\ audit' = [audit EXCEPT !.owed = CountTokens(@, ThreadPrompt, ThreadCompletion)]
    /\ threads' = Goto(t, "idle", "none")
    /\ UNCHANGED <<frontend, config, phase, last, claude_client, max_tokens_per_month,
                   fallback_model, fallback_tokenizer, knowledge_base, index>>

\* Line 114: _use_fallback_model tests self.fallback_model.
thread_fallback_check(t) ==
    /\ threads[t].pc = "fallback"
    /\ threads' = [threads EXCEPT
                      ![t].pc = IF fallback_model = "None" THEN "load_tokenizer"
                                ELSE "tokenize"]
    /\ UNCHANGED <<audit, frontend, config, engine, phase, last>>

\* Line 118: a new tokenizer, with no pad token yet, is stored.
thread_load_tokenizer(t) ==
    /\ threads[t].pc = "load_tokenizer"
    /\ fallback_tokenizer' = "no_pad"
    /\ audit' = [audit EXCEPT !.tokenizer_loads = @ + 1]
    /\ threads' = [threads EXCEPT ![t].pc = "load_model"]
    /\ UNCHANGED <<frontend, config, phase, last, claude_client, max_tokens_per_month,
                   used_tokens, fallback_model, knowledge_base, index>>

\* Lines 119-123: the model is loaded and stored.
thread_load_model(t) ==
    /\ threads[t].pc = "load_model"
    /\ fallback_model' = "loaded"
    /\ audit' = [audit EXCEPT !.model_loads = @ + 1]
    /\ threads' = [threads EXCEPT ![t].pc = "set_pad"]
    /\ UNCHANGED <<frontend, config, phase, last, claude_client, max_tokens_per_month,
                   used_tokens, fallback_tokenizer, knowledge_base, index>>

\* Line 124: the pad token of the tokenizer now stored is set.
thread_set_pad(t) ==
    /\ threads[t].pc = "set_pad"
    /\ fallback_tokenizer' = "ready"
    /\ threads' = [threads EXCEPT ![t].pc = "tokenize"]
    /\ UNCHANGED <<audit, frontend, config, phase, last, claude_client,
                   max_tokens_per_month, used_tokens, fallback_model, knowledge_base,
                   index>>

\* Line 126: the prompt is tokenized with the tokenizer now stored.
thread_tokenize(t) ==
    /\ threads[t].pc = "tokenize"
    /\ audit' = [audit EXCEPT !.partial_use = @ \/ fallback_tokenizer # "ready"]
    /\ threads' = [threads EXCEPT ![t].pc = "generate"]
    /\ UNCHANGED <<frontend, config, engine, phase, last>>

\* Lines 128-144: generation and decoding return the answer, or raise.  An
\* exception raised under the else of line 188 is caught at line 192, and
\* line 195 calls _use_fallback_model again; one raised there leaves
\* generate_response.
thread_generate(t) ==
    /\ threads[t].pc = "generate"
    /\ \E raises \in BOOLEAN :
          threads' = IF raises /\ threads[t].branch = "else"
                     THEN Goto(t, "fallback", "except")
                     ELSE Goto(t, "idle", "none")
    /\ UNCHANGED <<audit, frontend, config, engine, phase, last>>

NextThreads ==
    \E t \in Threads :
        \/ thread_gate(t)
        \/ thread_create(t)
        \/ thread_load_used(t)
        \/ thread_store_used(t)
        \/ thread_fallback_check(t)
        \/ thread_load_tokenizer(t)
        \/ thread_load_model(t)
        \/ thread_set_pad(t)
        \/ thread_tokenize(t)
        \/ thread_generate(t)

SpecThreads == InitThreads /\ [][NextThreads]_vars

\* ------------------------------------------------- the bot answering messages
\* ITMOBot on one asyncio event loop.  The dispatcher runs each update's
\* handler as a task of the loop; a task gives the loop up only at an await.
\* loop.busy is the user whose handler is inside the synchronous call
\* self.chatbot.process_query(...), during which the loop runs nothing else.

\* The text of the cost button of the menu (its emoji stands for the whole
\* label) and the fixed question cost_handler asks (its first word, skol'ko).
CostButton == <<"<cost>">>
CostQuery == <<"_s", "_k", "_o", "_l", "_q", "_k", "_o">>

\* Messages users send: the cost button, a greeting, a question.
Messages == {CostButton, QueryGreeting, QueryMl}

\* What the models do during a call made by a handler.
ChatPrimaryOutcomes == {"answer", "api_error"}
ChatFallbackBehaviours == [load : {"ok"}, gen : {"raises", "echo_only", "echo_answer"}]

InitChat ==
    /\ threads = NoThreads
    /\ audit = NoAudit
    /\ loop = NoLoop
    /\ fsm_state = NoFsmState
    /\ user_backgrounds = NoBackgrounds
    /\ sent = NoSent
    /\ answered = NoAnswered
    /\ phase = "idle"
    /\ kb_file = <<Entry1>>
    /\ api_key \in BOOLEAN
    /\ faiss_tie = "low_id_first"
    /\ claude_client = api_key
    /\ max_tokens_per_month = QuotaLimit
    /\ used_tokens = 0
    /\ fallback_model = "None"
    /\ fallback_tokenizer = "None"
    /\ knowledge_base = kb_file
    /\ index = CreateFaissIndex(kb_file)
    /\ last = NoCall

\* A user whose last message has been dealt with sends the next one.
user_sends(u) ==
    /\ loop.conv[u].stage \in {"none", "answered", "failed"}
    /\ \E m \in Messages :
          loop' = [loop EXCEPT !.conv[u] = [NoConversation EXCEPT !.stage = "queued",
                                                                  !.text = m]]
    /\ UNCHANGED <<callers, fsm_state, user_backgrounds, sent, answered, config, engine, phase, last>>

\* The loop starts the handler of u's update and the handler enters
\* process_query with the query q.
EnterProcessQuery(u, q) ==
    /\ loop.busy = "none"
    /\ loop.conv[u].stage = "queued"
    /\ loop' = [loop EXCEPT !.busy = u,
                            !.conv[u].stage = "in_engine",
                            !.conv[u].query = q]
    /\ UNCHANGED <<callers, fsm_state, user_backgrounds, sent, answered, config, engine, phase, last>>

\* cost_handler up to its call of process_query (telegram_bot.py:81-84).
cost_handler(u) ==
    /\ loop.conv[u].text = CostButton
    /\ EnterProcessQuery(u, CostQuery)

\* general_message_handler up to its call of process_query
\* (telegram_bot.py:220-223).
general_message_handler(u) ==
    /\ loop.conv[u].text # CostButton
    /\ EnterProcessQuery(u, loop.conv[u].text)

\* process_query ends.  If it returns, the handler goes on to
\* `await message.answer(response)` and the loop is free again; if it
\* raises, the exception leaves the handler, which has no try, and the
\* dispatcher logs it.
process_query_ends(u) ==
    /\ loop.busy = u
    /\ \E embed_ok \in BOOLEAN, pr \in ChatPrimaryOutcomes,
          fb1 \in ChatFallbackBehaviours, fb2 \in ChatFallbackBehaviours :
        /\ RelevantBehaviours(claude_client, used_tokens, max_tokens_per_month,
                              fallback_model, pr, fb1, fb2)
        /\ \E r \in {ProcessQuery(claude_client, used_tokens, max_tokens_per_month,
                                    fallback_model, fallback_tokenizer,
                                    knowledge_base, index, faiss_tie,
                                    loop.conv[u].query, embed_ok, pr, fb1, fb2)} :
               /\ used_tokens' = r.used_tokens
               /\ fallback_model' = r.fallback_model
               /\ fallback_tokenizer' = r.fallback_tokenizer
               /\ knowledge_base' = r.knowledge_base
               /\ index' = r.index
               /\ loop' = [loop EXCEPT
                              !.busy = "none",
                              !.conv[u].stage = IF r.kind = "return" THEN "sending"
                                                ELSE "failed",
                              !.conv[u].error = r.error,
                              !.conv[u].answer = r.text]
    /\ UNCHANGED <<callers, fsm_state, user_backgrounds, sent, answered, config, claude_client,
                   max_tokens_per_month, phase, last>>

\* `await message.answer(response, parse_mode="Markdown")` ends: the text
\* reaches the user, or, the Bot API refusing a message with no text, the
\* call raises and the handler ends with nothing sent.
message_answer_ends(u) ==
    /\ loop.conv[u].stage = "sending"
    /\ loop' = IF Len(loop.conv[u].answer) = 0
               THEN [loop EXCEPT !.conv[u].stage = "failed",
                                 !.conv[u].error = "send"]
               ELSE [loop EXCEPT !.conv[u].stage = "answered",
                                 !.conv[u].replies =
                                     Append(@, [kind |-> "answer",
                                                text |-> loop.conv[u].answer])]
    /\ UNCHANGED <<callers, fsm_state, user_backgrounds, sent, answered, config, engine, phase, last>>

NextChat ==
    \E u \in Users :
        \/ user_sends(u)
        \/ cost_handler(u)
        \/ general_message_handler(u)
        \/ process_query_ends(u)
        \/ message_answer_ends(u)

SpecChat == InitChat /\ [][NextChat]_vars

\* ------------------------------------------------- the recommendation flow
\* The five-question flow of ITMOBot, for the users of Users.

\* States of RecommendationStates (itmo_chat_bot.py:18-23), and "None" for
\* no state set.
AskingStates ==
    <<"asking_technical_skills", "asking_management_interest",
      "asking_programming_experience", "asking_ml_knowledge",
      "asking_product_experience">>

\* FactorOf altered: two handlers store each other's key.
FactorOfMixedUp(state) ==
    CASE state = "asking_technical_skills" -> "technical_skills"
      [] state = "asking_management_interest" -> "ml_knowledge"
      [] state = "asking_programming_experience" -> "programming_experience"
      [] state = "asking_ml_knowledge" -> "management_interest"
      [] state = "asking_product_experience" -> "product_experience"

\* The key each state's handler stores.
FactorOf(state) ==
    CASE state = "asking_technical_skills" -> "technical_skills"
      [] state = "asking_management_interest" -> "management_interest"
      [] state = "asking_programming_experience" -> "programming_experience"
      [] state = "asking_ml_knowledge" -> "ml_knowledge"
      [] state = "asking_product_experience" -> "product_experience"

\* Answers users give: Da, Net, YES.
AnswerDa == <<"_D", "_a">>
AnswerNet == <<"_N", "_e", "_t">>
AnswerYes == <<"Y", "E", "S">>
Answers == {AnswerDa, AnswerNet, AnswerYes}

\* message.text.lower() in ['da', 'yes', '+']
IsYes(text) == Lower(text) \in {<<"_d", "_a">>, <<"y", "e", "s">>, <<"+">>}

\* self.user_backgrounds[user_id][key] = value, the user's dict being
\* created first when there is none (lines 110-111 of telegram_bot.py).
\* (StoreFactorInEveryDict is StoreFactor altered: the value is stored in the
\* dict of every user.)
HasBackground(u) == u \in DOMAIN user_backgrounds
StoreFactorInEveryDict(u, key, value) ==
    [v \in (DOMAIN user_backgrounds) \cup {u} |->
        LET old == IF HasBackground(v) THEN user_backgrounds[v] ELSE <<>>
        IN  [k \in (DOMAIN old) \cup {key} |-> IF k = key THEN value ELSE old[k]]]
StoreFactor(u, key, value) ==
    LET old == IF HasBackground(u) THEN user_backgrounds[u] ELSE <<>>
        dict == [k \in (DOMAIN old) \cup {key} |-> IF k = key THEN value ELSE old[k]]
    IN  [v \in (DOMAIN user_backgrounds) \cup {u} |->
            IF v = u THEN dict ELSE user_backgrounds[v]]

\* ChooseProgram altered: a text that names both programs equally often
\* chooses no program.
ChooseProgramByCountOnly(recommendation) ==
    LET ai == Occurrences(recommendation, "<II>")
        product == Occurrences(recommendation, "<UIP>")
    IN  IF ai > product THEN "ai"
        ELSE IF product > ai THEN "ai_product"
        ELSE "none"

\* Lines 196-201 of telegram_bot.py: the program whose electives are added,
\* picked by looking for the two program names in the recommendation text.
ChooseProgram(recommendation) ==
    LET ai == Occurrences(recommendation, "<II>")
        product == Occurrences(recommendation, "<UIP>")
    IN  IF (ai > 0 /\ product = 0) \/ ai > product THEN "ai"
        ELSE IF product > 0 THEN "ai_product"
        ELSE "none"

\* full_response of process_product_experience for a background.
FullResponse(background) ==
    LET recommendation == RecommendProgram(background)
        program == ChooseProgram(recommendation)
        disciplines_rec == IF program = "none" THEN <<>>
                           ELSE GetDisciplinesRecommendation(program, background)
    IN  IF Len(disciplines_rec) > 0
        THEN recommendation \o <<"\n", "\n">> \o disciplines_rec
        ELSE recommendation

InitFlow ==
    /\ threads = NoThreads
    /\ audit = NoAudit
    /\ loop = NoLoop
    /\ fsm_state = NoFsmState
    /\ user_backgrounds = NoBackgrounds
    /\ sent = NoSent
    /\ answered = NoAnswered
    /\ phase = "idle"
    /\ kb_file = <<Entry1>>
    /\ api_key = FALSE
    /\ faiss_tie = "low_id_first"
    /\ claude_client = api_key
    /\ max_tokens_per_month = QuotaLimit
    /\ used_tokens = 0
    /\ fallback_model = "None"
    /\ fallback_tokenizer = "None"
    /\ knowledge_base = kb_file
    /\ index = CreateFaissIndex(kb_file)
    /\ last = NoCall

\* answered after the answer value was given for key in session s.
StoreAnswer(s, key, value) ==
    [answered EXCEPT ![s] =
        [k \in (DOMAIN answered[s]) \cup {key} |->
            IF k = key THEN value ELSE answered[s][k]]]

\* process_product_experience has sent the recommendation in session s and
\* has not cleared the FSM state yet (between lines 216 and 217).
AwaitingClear(s) == fsm_state[s] = AskingStates[5] /\ Len(sent[s]) > 0

\* recommend_command and recommendation_button_handler: they carry no state
\* filter and are registered before the state handlers, so they run in any
\* state; both call start_recommendation.  (The other commands and the menu
\* buttons are registered before the state handlers too; their handlers
\* touch neither the FSM state nor user_backgrounds, so a message of that
\* kind sent between two answers is a step that leaves the flow as it is.)
start_recommendation(s) ==
    /\ ~AwaitingClear(s)
    /\ fsm_state' = [fsm_state EXCEPT ![s] = AskingStates[1]]
    /\ sent' = [sent EXCEPT ![s] = <<>>]
    /\ answered' = [answered EXCEPT ![s] = <<>>]
    /\ UNCHANGED <<callers, loop, user_backgrounds, config, engine, phase, last>>

\* process_technical_skills: creates the user's dict when there is none,
\* stores the answer, asks the next question.
process_technical_skills(s) ==
    /\ fsm_state[s] = AskingStates[1]
    /\ \E answer \in Answers :
          /\ user_backgrounds' =
                StoreFactor(UserOf(s), FactorOf(AskingStates[1]), IsYes(answer))
          /\ answered' = StoreAnswer(s, FactorOf(AskingStates[1]), IsYes(answer))
    /\ fsm_state' = [fsm_state EXCEPT ![s] = AskingStates[2]]
    /\ UNCHANGED <<callers, loop, sent, config, engine, phase, last>>

\* The body shared by process_management_interest,
\* process_programming_experience and process_ml_knowledge (i = 2, 3, 4):
\* store the answer under the state's key in the user's dict, which must
\* exist, and ask the next question.
StoreAnswerAndAsk(s, i) ==
    /\ HasBackground(UserOf(s))
    /\ \E answer \in Answers :
          /\ user_backgrounds' =
                StoreFactor(UserOf(s), FactorOf(AskingStates[i]), IsYes(answer))
          /\ answered' = StoreAnswer(s, FactorOf(AskingStates[i]), IsYes(answer))
    /\ fsm_state' = [fsm_state EXCEPT ![s] = AskingStates[i + 1]]
    /\ UNCHANGED <<callers, loop, sent, config, engine, phase, last>>

process_management_interest(s) ==
    /\ fsm_state[s] = "asking_management_interest"
    /\ StoreAnswerAndAsk(s, 2)

process_programming_experience(s) ==
    /\ fsm_state[s] = "asking_programming_experience"
    /\ StoreAnswerAndAsk(s, 3)

process_ml_knowledge(s) ==
    /\ fsm_state[s] = "asking_ml_knowledge"
    /\ StoreAnswerAndAsk(s, 4)

\* process_product_experience up to message.answer (lines 187-216): stores
\* the last answer, calls recommend_program with the user's dict and sends
\* the recommendation with the electives.
process_product_experience(s) ==
    /\ fsm_state[s] = AskingStates[5]
    /\ ~AwaitingClear(s)
    /\ HasBackground(UserOf(s))
    /\ \E answer \in Answers :
          /\ user_backgrounds' =
                StoreFactor(UserOf(s), FactorOf(AskingStates[5]), IsYes(answer))
          /\ answered' = StoreAnswer(s, FactorOf(AskingStates[5]), IsYes(answer))
          /\ sent' = [sent EXCEPT ![s] = FullResponse(user_backgrounds'[UserOf(s)])]
    /\ UNCHANGED <<callers, loop, fsm_state, config, engine, phase, last>>

\* The rest of process_product_experience: `await state.clear()` (line 217).
state_clear(s) ==
    /\ AwaitingClear(s)
    /\ fsm_state' = [fsm_state EXCEPT ![s] = "None"]
    /\ UNCHANGED <<callers, loop, user_backgrounds, sent, answered,
                   config, engine, phase, last>>

\* The handlers of the flow, for the messages of session s.
FlowHandlers(s) ==
    \/ start_recommendation(s)
    \/ process_technical_skills(s)
    \/ process_management_interest(s)
    \/ process_programming_experience(s)
    \/ process_ml_knowledge(s)
    \/ process_product_experience(s)
    \/ state_clear(s)

\* Two users, each in the private chat with the bot.
NextFlow == \E s \in {"private"} \X Users : FlowHandlers(s)

SpecFlow == InitFlow /\ [][NextFlow]_vars

\* One user who writes to the bot from the private chat and from a group.
NextTwoChats == \E s \in Chats \X {"u1"} : FlowHandlers(s)

SpecTwoChats == InitFlow /\ [][NextTwoChats]_vars

\* ================================================================ claims
\* A call has just ended and last describes it.
Returned == phase = "returned"

\* The call that just ended ran generate_response (directly, or from
\* process_query).
GenerateRan == Returned /\ last.generate_calls = 1

\* The prompt of the generate_response call that just ended.
LastPrompt == BuildPrompt(last.query, last.context)

\* C1: whenever generate_response runs with used_tokens >= max_tokens_per_month,
\* the primary model is not invoked and the fallback model is.
C1_FallbackInvariant ==
    (GenerateRan /\ last.used_before >= max_tokens_per_month)
        => (last.primary_calls = 0 /\ last.fallback_calls >= 1)

\* A generate_response call made with a configured client after the quota
\* was used up, answered by the fallback.
C1_Witness ==
    /\ GenerateRan
    /\ claude_client
    /\ last.used_before >= max_tokens_per_month
    /\ last.fallback_calls >= 1
    /\ last.kind = "return"

\* C2: used_tokens never decreases; it changes only in a call in which
\* generate_response ran and the primary call succeeded; a call whose primary
\* attempt raised (a malformed response included), a call served by the
\* fallback, a greeting, a not-found answer and the two recommendation
\* operations leave it unchanged.
C2_QuotaMonotone ==
    [][/\ used_tokens' >= used_tokens
       /\ used_tokens' # used_tokens
            => /\ phase' = "returned"
               /\ last'.generate_calls = 1
               /\ last'.primary \in {"empty_text", "answer"}
               /\ last'.fallback_calls = 0
       /\ (/\ phase' = "returned"
           /\ \/ last'.primary \in {"api_error", "malformed"}
              \/ last'.fallback_calls > 0
              \/ last'.generate_calls = 0)
            => used_tokens' = used_tokens]_vars

\* After an earlier successful primary call, a call whose primary response
\* was malformed has left used_tokens as it was.
C2_Witness ==
    /\ GenerateRan
    /\ last.primary = "malformed"
    /\ last.used_before > 0
    /\ used_tokens = last.used_before

\* C3: with a client configured, used_tokens below the limit and a primary
\* call that succeeds, generate_response adds exactly the word count of the
\* prompt plus the word count of the completion to used_tokens and returns
\* the completion unchanged, without calling the fallback.
C3_PrimarySuccess ==
    (/\ GenerateRan
     /\ claude_client
     /\ last.used_before < max_tokens_per_month
     /\ last.primary \in {"empty_text", "answer"})
        => /\ used_tokens = last.used_before + WordCount(LastPrompt)
                                + WordCount(Completion(last.primary))
           /\ last.kind = "return"
           /\ last.text = Completion(last.primary)
           /\ last.fallback_calls = 0

\* A second successful primary call, with a completion that has whitespace
\* around its two words.
C3_Witness ==
    /\ GenerateRan
    /\ last.primary = "answer"
    /\ last.used_before > 0
    /\ used_tokens > last.used_before
    /\ Len(last.context) > 0

\* C4: when the primary call raises, generate_response runs the fallback
\* once and ends the way the fallback ended (its text, or its exception);
\* the primary error itself never reaches the caller.
C4_PrimaryErrorAbsorbed ==
    (GenerateRan /\ last.primary \in {"api_error", "malformed"})
        => /\ last.fallback_calls = 1
           /\ last.error # "primary"
           /\ last.kind = last.fallback_kind
           /\ last.text = last.fallback_text
           /\ (last.kind = "raise") = (last.error = "fallback")

\* A malformed primary response answered by the fallback's text.
C4_Witness ==
    /\ GenerateRan
    /\ last.primary = "malformed"
    /\ last.kind = "return"
    /\ last.fallback_calls = 1
    /\ Len(last.text) > 0

\* The call that just ended was process_query.
ProcessQueryRan == Returned /\ last.op = "process_query"

\* C5: every process_query call that returns gives a non-empty string, the
\* paths where the primary completion is returned as it is and where the
\* fallback output is prefix-stripped and cut included.
C5_NonEmptyAnswer ==
    (ProcessQueryRan /\ last.kind = "return") => Len(last.text) > 0

\* The lowercased query is itself one of the greeting/start tokens.
IsGreetingToken(query) ==
    \E g \in 1..Len(greetings) : Lower(query) = greetings[g]

\* C6: for a query that is a greeting/start token in any letter case,
\* process_query returns the onboarding text, calls neither the embedder nor
\* generate_response (no primary call, no fallback call, no model load), and
\* leaves used_tokens as it was.
C6_GreetingShortCircuit ==
    (ProcessQueryRan /\ IsGreetingToken(last.query))
        => /\ last.kind = "return"
           /\ last.text = OnboardingText
           /\ last.embed_calls = 0
           /\ last.generate_calls = 0
           /\ last.primary_calls = 0
           /\ last.fallback_calls = 0
           /\ last.loads = 0
           /\ used_tokens = last.used_before

\* The greeting in capitals, sent after an earlier call spent quota, got the
\* onboarding text.
C6_Witness ==
    /\ ProcessQueryRan
    /\ last.query = QueryGreeting
    /\ last.query # Lower(last.query)
    /\ last.text = OnboardingText
    /\ last.used_before > 0

\* C7: process_query returns the onboarding text only when the lowercased
\* query is itself a member of the token set; every other query, one that
\* holds a token inside a longer text included, is routed to retrieval.
C7_GreetingIsMembership ==
    (ProcessQueryRan /\ ~IsGreetingToken(last.query))
        => /\ last.embed_calls = 1
           /\ ~(last.kind = "return" /\ last.text = OnboardingText)

\* C8: with an empty knowledge base the engine can be built, and
\* process_query on a query that is not a greeting returns the not-found
\* text; the empty corpus is an error neither at build nor at search.
C8_EmptyCorpusGuidance ==
    (Len(kb_file) = 0 /\ phase # "new")
        => /\ phase # "failed"
           /\ (ProcessQueryRan /\ ~IsGreeting(last.query))
                => (last.kind = "return" /\ last.text = NotFoundText)

\* The call that just ended was a retrieve_relevant_info that returned.
RetrieveReturned ==
    Returned /\ last.op = "retrieve_relevant_info" /\ last.kind = "return"

\* Entry x scores higher against the query of the call that just ended than
\* entry y does.
LastScoreGreater(x, y) ==
    ScoreGreater(EmbedderEncode(last.query), EmbedderEncode(x.text),
                 EmbedderEncode(y.text))

\* The position of entry e in the knowledge base.
PositionOf(e) == CHOOSE i \in 1..Len(knowledge_base) : knowledge_base[i] = e

\* What retrieve_relevant_info(q, k) gives whatever the index does with equal
\* scores: min(k, n) distinct entries of the knowledge base, no entry left
\* out that scores higher than one given, in non-increasing score order.
TopEntriesByScore ==
    LET res == last.results
        n == Len(knowledge_base)
    IN  /\ Len(res) = IF last.k < n THEN last.k ELSE n
        /\ \A i \in 1..Len(res) : \E j \in 1..n : res[i] = knowledge_base[j]
        /\ \A i, j \in 1..Len(res) : i # j => res[i] # res[j]
        /\ \A i, j \in 1..Len(res) : i < j => ~LastScoreGreater(res[j], res[i])
        /\ \A j \in 1..n :
              (\A i \in 1..Len(res) : res[i] # knowledge_base[j])
                 => \A i \in 1..Len(res) : ~LastScoreGreater(knowledge_base[j], res[i])

\* Entries of the result with equal scores stand in corpus order.
StableTies ==
    \A i, j \in 1..Len(last.results) :
        (/\ i < j
         /\ ~LastScoreGreater(last.results[i], last.results[j])
         /\ ~LastScoreGreater(last.results[j], last.results[i]))
            => PositionOf(last.results[i]) < PositionOf(last.results[j])

C10_SearchReadOnly ==
    /\ phase \in {"idle", "returned"}
          => /\ knowledge_base = kb_file
             /\ index = CreateFaissIndex(kb_file)
    /\ RetrieveReturned
          => last.results =
                CollectResults(kb_file,
                               IndexSearch(CreateFaissIndex(kb_file),
                                           EmbedderEncode(last.query),
                                           last.k, faiss_tie))

\* A search returning two entries out of corpus order, made after earlier
\* calls spent quota and loaded the fallback model.
C10_Witness ==
    /\ RetrieveReturned
    /\ used_tokens > 0
    /\ fallback_model = "loaded"
    /\ Len(last.results) = 2
    /\ last.results # knowledge_base

\* 1 for a factor the background holds as true, 0 for one that is false or
\* missing.
Factor(background, key) ==
    IF key \in DOMAIN background /\ background[key] = TRUE THEN 1 ELSE 0

\* scoreA and scoreB of a background, as the scoring rules state them.
ScoreA(b) ==
    2 * Factor(b, "technical_skills") + 2 * Factor(b, "programming_experience")
        + Factor(b, "ml_knowledge")
ScoreB(b) ==
    Factor(b, "technical_skills") + 2 * Factor(b, "management_interest")
        + Factor(b, "programming_experience") + Factor(b, "ml_knowledge")
        + 2 * Factor(b, "product_experience")

\* The call that just ended was recommend_program.
RecommendRan == Returned /\ last.op = "recommend_program"

\* C11: recommend_program returns the program-A text iff scoreA > scoreB,
\* the program-B text iff scoreB > scoreA and the tie text iff the scores are
\* equal, a missing factor counting as false, in whatever state the engine
\* is; and the call changes no field of the engine.
C11_ScorerPure ==
    /\ [](RecommendRan
            => /\ last.kind = "return"
               /\ (last.text = RecommendationAi)
                     <=> (ScoreA(last.profile) > ScoreB(last.profile))
               /\ (last.text = RecommendationAiProduct)
                     <=> (ScoreB(last.profile) > ScoreA(last.profile))
               /\ (last.text = RecommendationTie)
                     <=> (ScoreA(last.profile) = ScoreB(last.profile)))
    /\ [][(phase' = "returned" /\ last'.op = "recommend_program")
             => UNCHANGED <<config, engine>>]_vars

\* The profile {true, false, true, false, false} (scoreA = 4, scoreB = 2)
\* got the program-A text from an engine that has spent quota and loaded the
\* fallback model.
C11_Witness ==
    /\ RecommendRan
    /\ last.profile = [technical_skills |-> TRUE, management_interest |-> FALSE,
                       programming_experience |-> TRUE, ml_knowledge |-> FALSE,
                       product_experience |-> FALSE]
    /\ last.text = RecommendationAi
    /\ used_tokens > 0
    /\ fallback_model = "loaded"

\* The call that just ended was get_disciplines_recommendation.
DisciplinesRan == Returned /\ last.op = "get_disciplines_recommendation"

\* The rule list of a program: its blocks in order, and the condition of
\* each block on the background b.
RuleBlocks(program) ==
    IF program = "ai" THEN <<"mlops", "rl", "math">>
    ELSE <<"growth", "ml_foundations", "agile">>
RuleHolds(name, b) ==
    CASE name = "mlops" -> Factor(b, "programming_experience") = 1
      [] name = "rl" -> Factor(b, "ml_knowledge") = 1
      [] name = "math" -> Factor(b, "technical_skills") = 0
      [] name = "growth" -> Factor(b, "product_experience") = 1
      [] name = "ml_foundations" -> Factor(b, "ml_knowledge") = 0
      [] name = "agile" -> Factor(b, "management_interest") = 1

\* C12: get_disciplines_recommendation gives the fixed header of the
\* program, then every block of the program's rule list whose own condition
\* holds, in the fixed order, then the fixed trailing section; the outcome
\* of the scorer plays no part.
C12_FlatRuleList ==
    DisciplinesRan
        => LET text == last.text
               b == last.profile
           IN  /\ last.kind = "return"
               /\ Len(text) >= 2
               /\ text[1] = (IF last.program = "ai" THEN "ai_header"
                             ELSE "product_header")
               /\ text[Len(text)] = (IF last.program = "ai" THEN "ai_specializations"
                                     ELSE "product_skills")
               /\ SubSeq(text, 2, Len(text) - 1)
                     = SelectSeq(RuleBlocks(last.program),
                                 LAMBDA name : RuleHolds(name, b))

\* Program 'ai' asked for a background the scorer gives to the other
\* program: all three blocks of 'ai' appear at once.
C12_Witness ==
    /\ DisciplinesRan
    /\ last.program = "ai"
    /\ ScoreB(last.profile) > ScoreA(last.profile)
    /\ last.text = <<"ai_header", "mlops", "rl", "math", "ai_specializations">>

\* What retrieval with k = 5 gives for the query of the call that just
\* ended.
LastRetrieved ==
    CollectResults(knowledge_base,
                   IndexSearch(index, EmbedderEncode(last.query), 5, faiss_tie))

\* C13: for a query that is not a greeting, process_query runs retrieval
\* with k = 5; it returns the not-found text, without calling
\* generate_response, iff the retrieved list is empty; otherwise it calls
\* generate_response once with the query and the retrieved entries and ends
\* the way that call ended, its text unchanged.
C13_RetrieveThenGenerate ==
    (ProcessQueryRan /\ ~IsGreeting(last.query) /\ last.error # "embedding")
        => /\ last.embed_calls = 1
           /\ Len(LastRetrieved) = 0
                 => /\ last.kind = "return"
                    /\ last.text = NotFoundText
                    /\ last.generate_calls = 0
           /\ Len(LastRetrieved) > 0
                 => /\ last.generate_calls = 1
                    /\ last.context = LastRetrieved
                    /\ ~(last.kind = "return" /\ last.text = NotFoundText)
                    /\ last.fallback_calls = 0
                          => /\ last.kind = "return"
                             /\ last.text = Completion(last.primary)
                    /\ last.fallback_calls > 0
                          => /\ last.kind = last.fallback_kind
                             /\ last.text = last.fallback_text

\* A question answered by the primary model from two retrieved entries; the
\* completion comes back with its leading blank and trailing newline.
C13_Witness ==
    /\ ProcessQueryRan
    /\ ~IsGreeting(last.query)
    /\ last.generate_calls = 1
    /\ Len(last.context) = 2
    /\ last.primary = "answer"
    /\ last.text = Completion("answer")
    /\ last.text # Strip(last.text)

\* No thread is inside generate_response.
ThreadsQuiet == \A t \in Threads : threads[t].pc = "idle"

\* C14: when several generate_response calls run at once and succeed on the
\* primary model, no increment is lost: once all of them have returned,
\* used_tokens is the initial value (0) plus the word counts of every
\* successful call.
C14_NoLostIncrement == ThreadsQuiet => used_tokens = audit.owed

\* C15: when requests reach _use_fallback_model at the same time with the
\* model not loaded, tokenizer and model are loaded at most once, and no
\* request works with a tokenizer that is only partly set up.
C15_SingleFlightLoad ==
    /\ audit.tokenizer_loads <= 1
    /\ audit.model_loads <= 1
    /\ ~audit.partial_use

\* The loop can start the handler of u's update.
CanStartHandler(u) == ENABLED (cost_handler(u) \/ general_message_handler(u))

\* C16: while one conversation's request is inside the engine, the handler
\* of another conversation's waiting message can still be started.
C16_NonBlockingFrontEnd ==
    \A u, v \in Users :
        (/\ u # v
         /\ loop.conv[u].stage = "in_engine"
         /\ loop.conv[v].stage = "queued")
            => CanStartHandler(v)

\* C18: when the engine failed while a user's message was handled (the
\* embedder raised during retrieval, or the fallback raised), the user has
\* received exactly one message, the polite 'cannot answer' one: no raw
\* error and no silence.
C18_PoliteFailureMessage ==
    \A u \in Users :
        (loop.conv[u].stage = "failed" /\ loop.conv[u].error \in {"embedding", "fallback"})
            => /\ Len(loop.conv[u].replies) = 1
               /\ loop.conv[u].replies[1].kind = "cannot_answer"

\* An invocation of _use_fallback_model raised during the call that just
\* ended: the only one, or the first of two.
FallbackRaised == last.fallback_kind = "raise" \/ last.fallback_calls = 2

\* C17: if the fallback generator raises, generate_response raises to its
\* caller instead of returning a string; and generate_response raises only
\* when the fallback generator raised.
C17_FallbackFailureSurfaces ==
    GenerateRan
        => /\ FallbackRaised => last.kind = "raise"
           /\ last.kind = "raise" => (last.error = "fallback" /\ FallbackRaised)

\* generate_response('ml?', knowledge_base) on the engine as it stands, but
\* with a client and with used_tokens at the limit (the gate skips the
\* primary), the local model behaving as fb on every invocation.
SkippedByQuota(fb) ==
    GenerateResponse(TRUE, max_tokens_per_month, max_tokens_per_month,
                     fallback_model, fallback_tokenizer, QueryMl, knowledge_base,
                     "answer", fb, fb)

\* The same call with used_tokens = 0 and a primary call that raises.
PrimaryFailed(fb) ==
    GenerateResponse(TRUE, 0, max_tokens_per_month,
                     fallback_model, fallback_tokenizer, QueryMl, knowledge_base,
                     "api_error", fb, fb)

\* C19: for the same prompt and the same behaviour of the fallback
\* generator, a call whose primary was skipped by the quota gate and a call
\* whose primary raised end alike: the same string returned or the same
\* error raised, the same number of fallback invocations, and used_tokens
\* left as it was.
C19_QuotaAndFailureAlike ==
    phase = "idle"
        => \A fb \in FallbackBehaviours :
              /\ SkippedByQuota(fb).kind = PrimaryFailed(fb).kind
              /\ SkippedByQuota(fb).text = PrimaryFailed(fb).text
              /\ SkippedByQuota(fb).error = PrimaryFailed(fb).error
              /\ SkippedByQuota(fb).fallback_calls = PrimaryFailed(fb).fallback_calls
              /\ SkippedByQuota(fb).used_tokens = max_tokens_per_month
              /\ PrimaryFailed(fb).used_tokens = 0

\* The flow of session s has produced its recommendation and cleared the FSM
\* state.
FlowFinished(s) == fsm_state[s] = "None" /\ Len(sent[s]) > 0

\* C20: a user's profile is discarded once the recommendation has been
\* produced: after the flow has finished no entry for that user is left in
\* user_backgrounds.
C20_ProfileSessionScoped ==
    \A s \in Sessions : FlowFinished(s) => ~HasBackground(UserOf(s))

\* The engine has been constructed.
Constructed == phase \in {"idle", "returned"}

\* C21: in every state after construction the index holds one vector per
\* knowledge-base entry, the vector at position i being that of
\* knowledge_base[i]; every position a search returns is -1 (padding) or a
\* position of the knowledge base.
C21_IndexAligned ==
    Constructed
        => /\ Len(index) = Len(knowledge_base)
           /\ \A i \in 1..Len(index) :
                 index[i] = EmbedderEncode(knowledge_base[i].text)
           /\ \A q \in Queries, k \in Ks :
                 \A r \in 1..k :
                    LET pos == IndexSearch(index, EmbedderEncode(q), k, faiss_tie)[r]
                    IN  pos = -1 \/ (0 <= pos /\ pos < Len(knowledge_base))

\* An engine over two entries with different vectors, the second scoring
\* higher for 'ml?', after calls that spent quota and loaded the fallback
\* model: a search has just returned the second entry first.
C21_Witness ==
    /\ RetrieveReturned
    /\ knowledge_base = <<Entry3, Entry1>>
    /\ index[1] # index[2]
    /\ last.query = QueryMl
    /\ last.results = <<Entry1, Entry3>>
    /\ used_tokens > 0
    /\ fallback_model = "loaded"

\* Steps of the fallback model's life common to C22 as stated and as
\* amended: the model is not loaded before a call reaches the fallback and
\* enters the load; once loaded, model and tokenizer stay as they are and no
\* later call loads again.
LoadedOnlyByFallback ==
    fallback_model' # fallback_model
        => /\ fallback_model = "None"
           /\ fallback_model' = "loaded"
           /\ fallback_tokenizer' = "ready"
           /\ phase' = "returned"
           /\ last'.fallback_calls >= 1
           /\ last'.loads >= 1
LoadedIsReused ==
    fallback_model = "loaded"
        => /\ fallback_model' = "loaded"
           /\ fallback_tokenizer' = fallback_tokenizer
           /\ phase' = "returned" => last'.loads = 0

\* The step is a call that reaches the fallback while the model is not
\* loaded.
FirstUse ==
    fallback_model = "None" /\ phase' = "returned" /\ last'.fallback_calls >= 1

\* C22 as stated: the model is initialized exactly once, during the first
\* call that reaches the fallback, and reused by every later call.
C22_LoadedExactlyOnce ==
    [][/\ LoadedOnlyByFallback
       /\ LoadedIsReused
       /\ FirstUse => (fallback_model' = "loaded" /\ last'.loads = 1)]_vars

\* C22, amended: every fallback invocation that finds the model absent
\* enters the load; the call returns only if the load succeeded, and a load
\* that failed is tried again by the next invocation; the model is loaded
\* successfully at most once and reused by every later call without loading.
C22_LoadedAtMostOnce ==
    [][/\ LoadedOnlyByFallback
       /\ LoadedIsReused
       /\ FirstUse
            => /\ last'.loads >= 1
               /\ last'.loads <= last'.fallback_calls
               /\ last'.kind = "return"
                     => (fallback_model' = "loaded" /\ fallback_tokenizer' = "ready")
               /\ fallback_model' = "None" => last'.kind = "raise"]_vars

\* A call that was not the first one (the primary model answered earlier)
\* reached the fallback, loaded the model in that call and returned an answer.
C22_Witness ==
    /\ GenerateRan
    /\ last.fallback_calls = 1
    /\ last.loads = 1
    /\ last.kind = "return"
    /\ fallback_model = "loaded"
    /\ fallback_tokenizer = "ready"
    /\ last.used_before > 0

\* The decoded output begins with the prompt.
BeginsWith(prompt, response) ==
    /\ Len(response) >= Len(prompt)
    /\ TakeFirst(response, Len(prompt)) = prompt

\* What C23 says _use_fallback_model returns for a decoded output: the
\* output without the echoed prompt prefix, or the output as it is when it
\* does not begin with the prompt, cut to FallbackMaxChars characters.
FallbackResultAsStated(prompt, response) ==
    LET rest == IF BeginsWith(prompt, response)
                THEN Strip(DropFirst(response, Len(prompt))) ELSE response
    IN  Strip(TakeFirst(rest, FallbackMaxChars))

\* _use_fallback_model('ml?' prompt) on the engine as it stands, the local
\* model loading and decoding to Decoded(prompt, gen).
FallbackResult(gen) ==
    UseFallbackModel(fallback_model, fallback_tokenizer,
                     BuildPrompt(QueryMl, knowledge_base),
                     [load |-> "ok", gen |-> gen])

\* C23: the fallback result is the decoded output with the echoed prompt
\* prefix removed, nothing being removed when the output does not begin with
\* the prompt, cut to at most FallbackMaxChars characters; its length never
\* exceeds FallbackMaxChars.
C23_PromptPrefixRemoved ==
    (phase = "idle" /\ Constructed)
        => \A gen \in FallbackGens \ {"raises"} :
              /\ FallbackResult(gen).kind = "return"
              /\ Len(FallbackResult(gen).text) <= FallbackMaxChars
              /\ FallbackResult(gen).text =
                    FallbackResultAsStated(BuildPrompt(QueryMl, knowledge_base),
                        Decoded(BuildPrompt(QueryMl, knowledge_base), gen))

\* The part of C23 that holds: the length bound, and the result as stated
\* for every output that begins with the prompt or does not contain it.
C23_LengthBound ==
    (phase = "idle" /\ Constructed)
        => \A gen \in FallbackGens \ {"raises"} :
              /\ Len(FallbackResult(gen).text) <= FallbackMaxChars
              /\ gen # "shifted_echo"
                    => FallbackResult(gen).text =
                          FallbackResultAsStated(BuildPrompt(QueryMl, knowledge_base),
                              Decoded(BuildPrompt(QueryMl, knowledge_base), gen))

\* C25: a generate_response call invokes the fallback generator at most
\* once, on every path, also when the fallback itself raises.
C25_FallbackAtMostOnce ==
    GenerateRan => last.fallback_calls <= 1

\* ---------------------------------------------------------------------
\* The engine under a caller that keeps calling generate_response: an engine
\* constructed with a Claude client, a corpus of one entry and one of two
\* monthly limits, and a
\* caller that makes one call after another (the bot's handlers do so for
\* as long as users keep asking).  Fairness: a call that can be made is
\* made, and a call that returned is followed by the caller's next step.
QuotaLimits == {QuotaLimit, 4 * QuotaLimit}

InitQuota ==
    /\ threads = NoThreads
    /\ audit = NoAudit
    /\ loop = NoLoop
    /\ fsm_state = NoFsmState
    /\ user_backgrounds = NoBackgrounds
    /\ sent = NoSent
    /\ answered = NoAnswered
    /\ phase = "idle"
    /\ kb_file = <<Entry1>>
    /\ api_key = TRUE
    /\ faiss_tie = "low_id_first"
    /\ claude_client = TRUE
    /\ max_tokens_per_month \in QuotaLimits
    /\ used_tokens = 0
    /\ fallback_model = "None"
    /\ fallback_tokenizer = "None"
    /\ knowledge_base = kb_file
    /\ index = CreateFaissIndex(kb_file)
    /\ last = NoCall

NextQuota ==
    \/ generate_response
    \/ caller_continues

SpecQuota ==
    /\ InitQuota
    /\ [][NextQuota]_vars
    /\ WF_vars(generate_response)
    /\ WF_vars(caller_continues)

\* The quota gate is closed.
GateClosed == used_tokens >= max_tokens_per_month

\* The step is a generate_response call whose primary call returned a text.
PrimarySucceeds ==
    /\ phase' = "returned"
    /\ last'.primary_calls = 1
    /\ ~PrimaryRaises(last'.primary)

\* The call that just ended made a primary call, which raised.
PrimaryFails ==
    /\ GenerateRan
    /\ last.primary_calls = 1
    /\ PrimaryRaises(last.primary)

\* C26: every successful primary call adds at least the prompt's word count,
\* which is positive, to used_tokens; the closed gate stays closed and every
\* call made with the gate closed is served by the fallback; and when no
\* primary call ever fails, the gate is closed after finitely many calls and
\* for ever after.
C26_GateEventuallyClosed ==
    /\ [][PrimarySucceeds
            => /\ WordCount(BuildPrompt(last'.query, last'.context)) > 0
               /\ used_tokens' >= used_tokens
                      + WordCount(BuildPrompt(last'.query, last'.context))]_vars
    /\ [][GateClosed => GateClosed']_vars
    /\ [](GenerateRan /\ last.used_before >= max_tokens_per_month
            => last.primary_calls = 0 /\ last.fallback_calls >= 1)
    /\ ([]~PrimaryFails => <>[]GateClosed)

\* A call served by the fallback after several successful primary calls
\* closed the gate of the higher limit.
C26_Witness ==
    /\ GenerateRan
    /\ max_tokens_per_month = 4 * QuotaLimit
    /\ last.used_before >= max_tokens_per_month
    /\ last.primary_calls = 0
    /\ last.fallback_calls >= 1

\* The five questions in the order of the flow: the state in which each is
\* awaited and the factor its answer sets.
FlowOrder ==
    << [state |-> "asking_technical_skills", factor |-> "technical_skills"],
       [state |-> "asking_management_interest", factor |-> "management_interest"],
       [state |-> "asking_programming_experience", factor |-> "programming_experience"],
       [state |-> "asking_ml_knowledge", factor |-> "ml_knowledge"],
       [state |-> "asking_product_experience", factor |-> "product_experience"] >>
Factors == {FlowOrder[i].factor : i \in 1..5}

\* The dict of user u, {} when there is none.
BackgroundOf(backgrounds, u) ==
    IF u \in DOMAIN backgrounds THEN backgrounds[u] ELSE <<>>

\* The step leaves the dict of user u with the factor key set and everything
\* else in it as it was.
StoresExactly(u, key) ==
    /\ u \in DOMAIN user_backgrounds'
    /\ key \in DOMAIN user_backgrounds'[u]
    /\ DOMAIN user_backgrounds'[u] =
          (DOMAIN BackgroundOf(user_backgrounds, u)) \cup {key}
    /\ \A k \in (DOMAIN user_backgrounds'[u]) \ {key} :
          user_backgrounds'[u][k] = user_backgrounds[u][k]

\* The step of session s as C24 allows it: the flow is started, or the
\* answer to question i is stored and question i + 1 asked, or the last
\* answer is stored, recommend_program called with the user's dict and the
\* message sent, or the state cleared after the message was sent; anything
\* else leaves the session alone, and the user's dict too unless it is a step
\* of the same user's flow in another chat.
FlowStep(s) ==
    LET u == UserOf(s)
        started == /\ fsm_state'[s] = FlowOrder[1].state
                   /\ Len(sent'[s]) = 0
                   /\ BackgroundOf(user_backgrounds', u) = BackgroundOf(user_backgrounds, u)
        answered_i(i) == /\ fsm_state[s] = FlowOrder[i].state
                         /\ fsm_state'[s] = FlowOrder[i + 1].state
                         /\ StoresExactly(u, FlowOrder[i].factor)
                         /\ sent'[s] = sent[s]
        recommended == /\ fsm_state[s] = FlowOrder[5].state
                       /\ fsm_state'[s] = fsm_state[s]
                       /\ Len(sent[s]) = 0
                       /\ StoresExactly(u, FlowOrder[5].factor)
                       /\ DOMAIN answered'[s] = Factors
                       /\ DOMAIN user_backgrounds'[u] = Factors
                       /\ sent'[s] = FullResponse(user_backgrounds'[u])
                       /\ Len(sent'[s]) > 0
        cleared == /\ fsm_state[s] = FlowOrder[5].state
                   /\ Len(sent[s]) > 0
                   /\ fsm_state'[s] = "None"
                   /\ sent'[s] = sent[s]
                   /\ BackgroundOf(user_backgrounds', u) = BackgroundOf(user_backgrounds, u)
        idle == /\ fsm_state'[s] = fsm_state[s]
                /\ sent'[s] = sent[s]
                /\ \/ BackgroundOf(user_backgrounds', u) = BackgroundOf(user_backgrounds, u)
                   \/ \E t \in Sessions \ {s} :
                         /\ UserOf(t) = u
                         /\ fsm_state'[t] # fsm_state[t] \/ sent'[t] # sent[t]
    IN  \/ started
        \/ \E i \in 1..4 : answered_i(i)
        \/ recommended
        \/ cleared
        \/ idle

ElectiveBlock(s) ==
    DropFirst(sent[s], Len(RecommendProgram(user_backgrounds[UserOf(s)])) + 2)

\* C27: in the final message the electives of program 'ai' follow the
\* recommendation exactly when the scorer favoured program A, those of
\* 'ai_product' when it favoured program B or found a tie, and for every
\* profile the elective block is not empty.
C27_ElectivesFollowScorer ==
    \A s \in Sessions :
        Len(sent[s]) > 0
            => LET b == user_backgrounds[UserOf(s)]
                   favoured == IF ScoreA(b) > ScoreB(b) THEN "ai" ELSE "ai_product"
               IN  /\ DOMAIN b = Factors
                   /\ TakeFirst(sent[s], Len(RecommendProgram(b)) + 2)
                         = RecommendProgram(b) \o <<"\n", "\n">>
                   /\ Len(ElectiveBlock(s)) > 0
                   /\ ElectiveBlock(s)[1] = (IF ScoreA(b) > ScoreB(b) THEN "ai_header"
                                             ELSE "product_header")
                   /\ ElectiveBlock(s) = GetDisciplinesRecommendation(favoured, b)

\* The message sent for a profile with equal scores: the tie text followed
\* by the electives of 'ai_product'.
C27_Witness ==
    LET s == <<"private", "u1">>
    IN  /\ FlowFinished(s)
        /\ ScoreA(user_backgrounds["u1"]) = ScoreB(user_backgrounds["u1"])
        /\ ScoreA(user_backgrounds["u1"]) > 0
        /\ TakeFirst(sent[s], Len(RecommendationTie)) = RecommendationTie
        /\ ElectiveBlock(s)[1] = "product_header"

\* The step is the one in which the flow of session s calls
\* recommend_program and sends the message.
Recommends(s) == Len(sent[s]) = 0 /\ Len(sent'[s]) > 0

\* C28: whenever the flow calls recommend_program, the profile it passes
\* holds all five factors and each value is the answer given to that
\* question in the same session since its most recent start.
C28_ProfileFromThisSession ==
    [][\A s \in Sessions :
          Recommends(s)
              => /\ DOMAIN user_backgrounds'[UserOf(s)] = Factors
                 /\ user_backgrounds'[UserOf(s)] = answered'[s]]_vars

\* The step leaves everything the bot keeps for user v as it was: the dict
\* in user_backgrounds, the FSM states and the messages sent.
Untouched(v) ==
    /\ (v \in DOMAIN user_backgrounds') <=> (v \in DOMAIN user_backgrounds)
    /\ BackgroundOf(user_backgrounds', v) = BackgroundOf(user_backgrounds, v)
    /\ \A s \in Sessions :
          UserOf(s) = v => (fsm_state'[s] = fsm_state[s] /\ sent'[s] = sent[s])

\* C29: the profiles of different users are isolated under any interleaving
\* of their flows: a step changes the profile and flow state of one user
\* only, and the recommendation a user gets is computed from that user's own
\* five answers.
C29_UsersIsolated ==
    [][/\ \E u \in Users : \A v \in Users \ {u} : Untouched(v)
       /\ \A s \in Sessions :
             Recommends(s)
                 => /\ DOMAIN answered'[s] = Factors
                    /\ sent'[s] = FullResponse(answered'[s])]_vars

\* Two flows interleaved: one user has got the recommendation for answers
\* that are all yes while the other, who answered no, is still being asked.
C29_Witness ==
    /\ FlowFinished(<<"private", "u1">>)
    /\ fsm_state[<<"private", "u2">>] = "asking_ml_knowledge"
    /\ answered[<<"private", "u1">>] = [k \in Factors |-> TRUE]
    /\ answered[<<"private", "u2">>] =
          [technical_skills |-> FALSE, management_interest |-> FALSE,
           programming_experience |-> FALSE]
    /\ user_backgrounds["u1"] = answered[<<"private", "u1">>]
    /\ user_backgrounds["u2"] = answered[<<"private", "u2">>]
    /\ sent[<<"private", "u1">>] = FullResponse([k \in Factors |-> TRUE])

====
